---------------------------- MODULE Spec2Model ----------------------------
(***************************************************************************)
(* Pricing and calibration engine of deskview: the Black-Scholes helpers   *)
(* and implied-vol solver, the Heston pricer, calibrator and surface       *)
(* generator (heston_adapter.py) and the closed-form Black-Scholes adapter *)
(* (black_scholes_adapter.py).                                             *)
(*                                                                         *)
(* Numbers.  A Python/numpy float is a record [c, v]:                      *)
(*   c = "fin"   a finite value, v in units of 1/SCALE (fixed point)       *)
(*   c = "nan"   NaN                                                       *)
(*   c = "inf"   +infinity (v = 1) or -infinity (v = -1)                   *)
(*   c = "raise" not a value: the expression raised a Python exception     *)
(* Arithmetic follows IEEE-754 on the special values (NaN is contagious,   *)
(* every comparison with NaN is false) and rounds finite results to the    *)
(* grid.  A threshold of the code that is finer than the grid is the       *)
(* comparison it amounts to on grid values (x < 1e-9 is x <= 0 for x >= 0).*)
(***************************************************************************)
EXTENDS Integers, Sequences, FiniteSets, TLC

SCALE == 10 ^ 4

Fin(n) == [c |-> "fin", v |-> n]
NaN    == [c |-> "nan", v |-> 0]
PInf   == [c |-> "inf", v |-> 1]
NInf   == [c |-> "inf", v |-> -1]
Raise  == [c |-> "raise", v |-> 0]
None   == [c |-> "none", v |-> 0]

IsFin(a)   == a.c = "fin"
IsNaN(a)   == a.c = "nan"
IsInf(a)   == a.c = "inf"
IsRaise(a) == a.c = "raise"
IsNone(a)  == a.c = "none"

Abs(n) == IF n < 0 THEN -n ELSE n
Sgn(n) == IF n > 0 THEN 1 ELSE IF n < 0 THEN -1 ELSE 0
Min2(a, b) == IF a < b THEN a ELSE b
Max2(a, b) == IF a > b THEN a ELSE b

(* Fixed-point product and quotient, rounded toward zero, split so that no *)
(* intermediate leaves the 32-bit range of the checker's integers.         *)
MulFix(a, b) ==
    LET s == Sgn(a) * Sgn(b)
        x == Max2(Abs(a), Abs(b))
        y == Min2(Abs(a), Abs(b))
    IN  s * ((x \div SCALE) * y + ((x % SCALE) * y) \div SCALE)

ROOT == 10 ^ 2

(* (r * SCALE) \div y for 0 <= r < y, taken two decimal places at a time *)
DivRest(r, y) == ((r * ROOT) \div y) * ROOT + (((r * ROOT) % y) * ROOT) \div y

DivFix(a, b) ==
    LET s == Sgn(a) * Sgn(b)
        x == Abs(a)
        y == Abs(b)
    IN  s * ((x \div y) * SCALE + DivRest(x % y, y))

(* An exception raised while evaluating an operand is the result. *)
Lift1(a, r)    == IF IsRaise(a) THEN Raise ELSE r
Lift2(a, b, r) == IF IsRaise(a) \/ IsRaise(b) THEN Raise ELSE r

FSign(a) == IF IsInf(a) THEN a.v ELSE Sgn(a.v)
InfOf(s) == IF s < 0 THEN NInf ELSE PInf

FNeg(a) ==
    Lift1(a, IF IsNaN(a) THEN NaN
             ELSE IF IsInf(a) THEN InfOf(-a.v)
             ELSE Fin(-a.v))

FAdd(a, b) ==
    Lift2(a, b,
          IF IsNaN(a) \/ IsNaN(b) THEN NaN
          ELSE IF IsInf(a) /\ IsInf(b) THEN (IF a.v = b.v THEN a ELSE NaN)
          ELSE IF IsInf(a) THEN a
          ELSE IF IsInf(b) THEN b
          ELSE Fin(a.v + b.v))

FSub(a, b) == FAdd(a, FNeg(b))

FMul(a, b) ==
    Lift2(a, b,
          IF IsNaN(a) \/ IsNaN(b) THEN NaN
          ELSE IF IsInf(a) \/ IsInf(b)
               THEN (IF FSign(a) * FSign(b) = 0 THEN NaN
                     ELSE InfOf(FSign(a) * FSign(b)))
          ELSE Fin(MulFix(a.v, b.v)))

(* numpy's float division: x/0 is +-inf, 0/0 is NaN, a warning at most. *)
FDiv(a, b) ==
    Lift2(a, b,
          IF IsNaN(a) \/ IsNaN(b) THEN NaN
          ELSE IF IsInf(a) THEN (IF IsInf(b) THEN NaN
                                 ELSE InfOf(a.v * (IF b.v < 0 THEN -1 ELSE 1)))
          ELSE IF IsInf(b) THEN Fin(0)
          ELSE IF b.v = 0 THEN (IF a.v = 0 THEN NaN ELSE InfOf(Sgn(a.v)))
          ELSE Fin(DivFix(a.v, b.v)))

(* Python's float division: a zero divisor raises ZeroDivisionError. *)
PyDiv(a, b) == IF IsFin(b) /\ b.v = 0 THEN Lift1(a, Raise) ELSE FDiv(a, b)

(* Comparisons: false as soon as one side is NaN. *)
FLt(a, b) ==
    /\ ~IsNaN(a) /\ ~IsNaN(b)
    /\ IF IsInf(a) THEN a.v = -1 /\ ~(IsInf(b) /\ b.v = -1)
       ELSE IF IsInf(b) THEN b.v = 1
       ELSE a.v < b.v
FLe(a, b) == ~IsNaN(a) /\ ~IsNaN(b) /\ ~FLt(b, a)
FGt(a, b) == FLt(b, a)
FGe(a, b) == FLe(b, a)

(* Python's max(a, b): a, unless b > a.  So max(NaN, b) is NaN. *)
PyMax(a, b) == Lift2(a, b, IF FGt(b, a) THEN b ELSE a)

FAbs(a) ==
    Lift1(a, IF IsNaN(a) THEN NaN ELSE IF IsInf(a) THEN PInf ELSE Fin(Abs(a.v)))

(* np.clip(x, lo, hi) = minimum(maximum(x, lo), hi); NaN stays NaN. *)
FClip(a, lo, hi) ==
    Lift1(a, IF IsNaN(a) THEN NaN
             ELSE IF FLt(a, lo) THEN lo
             ELSE IF FGt(a, hi) THEN hi
             ELSE a)

(* e^x on the grid: Taylor series on [-1/2, 1/2], squaring outside. *)
ExpSmall(x) ==
    LET x2 == MulFix(x, x)
        x3 == MulFix(x2, x)
        x4 == MulFix(x3, x)
        x5 == MulFix(x4, x)
    IN  SCALE + x + x2 \div 2 + x3 \div 6 + x4 \div 24 + x5 \div 120

Square(h) == MulFix(h, h)

RECURSIVE ExpFix(_)
ExpFix(x) ==
    IF Abs(x) <= SCALE \div 2 THEN ExpSmall(x) ELSE Square(ExpFix(x \div 2))

ExpOverflow == 10 * SCALE

FExp(a) ==
    Lift1(a, IF IsNaN(a) THEN NaN
             ELSE IF IsInf(a) THEN (IF a.v = 1 THEN PInf ELSE Fin(0))
             ELSE IF a.v > ExpOverflow THEN PInf
             ELSE IF a.v < -ExpOverflow THEN Fin(0)
             ELSE Fin(ExpFix(a.v)))

(* ln x on the grid, x > 0: halve or double into [1/2, 2], then the        *)
(* series 2(z + z^3/3 + z^5/5 + z^7/7) with z = (x-1)/(x+1).               *)
Ln2 == 6931 * (SCALE \div 10000)

LnSmall(x) ==
    LET z  == DivFix(x - SCALE, x + SCALE)
        z2 == MulFix(z, z)
        z3 == MulFix(z2, z)
        z5 == MulFix(z3, z2)
        z7 == MulFix(z5, z2)
    IN  2 * (z + z3 \div 3 + z5 \div 5 + z7 \div 7)

RECURSIVE LnFix(_)
LnFix(x) ==
    IF x > 2 * SCALE THEN LnFix(x \div 2) + Ln2
    ELSE IF 2 * x < SCALE THEN LnFix(2 * x) - Ln2
    ELSE LnSmall(x)

(* np.log: log(0) = -inf, log of a negative number is NaN. *)
FLog(a) ==
    Lift1(a, IF IsNaN(a) THEN NaN
             ELSE IF IsInf(a) THEN (IF a.v = 1 THEN PInf ELSE NaN)
             ELSE IF a.v = 0 THEN NInf
             ELSE IF a.v < 0 THEN NaN
             ELSE Fin(LnFix(a.v)))

(* Integer square root by Newton's iteration. *)
RECURSIVE IsqrtIter(_, _)
IsqrtIter(n, g) ==
    LET h == (g + n \div g) \div 2
    IN  IF h >= g THEN g ELSE IsqrtIter(n, h)

Isqrt(n) == IF n <= 0 THEN 0 ELSE IsqrtIter(n, n)

SqrtFix(x) == Isqrt(x * SCALE)

(* np.sqrt: NaN below zero. *)
FSqrt(a) ==
    Lift1(a, IF IsNaN(a) THEN NaN
             ELSE IF IsInf(a) THEN (IF a.v = 1 THEN PInf ELSE NaN)
             ELSE IF a.v < 0 THEN NaN
             ELSE Fin(SqrtFix(a.v)))

(* scipy.stats.norm.cdf and norm.pdf, tabulated every 0.05 on [0, 4.5] and *)
(* interpolated linearly; beyond 4.5 the values round to 1 and 0.          *)
TableStep == SCALE \div 20

CdfTable ==
    << 5000, 5199, 5398, 5596, 5793, 5987, 6179, 6368, 6554, 6736, 6915, 7088, 7257,
       7422, 7580, 7734, 7881, 8023, 8159, 8289, 8413, 8531, 8643, 8749, 8849, 8944,
       9032, 9115, 9192, 9265, 9332, 9394, 9452, 9505, 9554, 9599, 9641, 9678, 9713,
       9744, 9772, 9798, 9821, 9842, 9861, 9878, 9893, 9906, 9918, 9929, 9938, 9946,
       9953, 9960, 9965, 9970, 9974, 9978, 9981, 9984, 9987, 9989, 9990, 9992, 9993,
       9994, 9995, 9996, 9997, 9997, 9998, 9998, 9998, 9999, 9999, 9999, 9999, 9999,
       10000, 10000, 10000, 10000, 10000, 10000, 10000, 10000, 10000, 10000, 10000,
       10000, 10000 >>

PdfTable ==
    << 3989, 3984, 3970, 3945, 3910, 3867, 3814, 3752, 3683, 3605, 3521, 3429, 3332,
       3230, 3123, 3011, 2897, 2780, 2661, 2541, 2420, 2299, 2179, 2059, 1942, 1826,
       1714, 1604, 1497, 1394, 1295, 1200, 1109, 1023, 940, 863, 790, 721, 656,
       596, 540, 488, 440, 396, 355, 317, 283, 252, 224, 198, 175, 154,
       136, 119, 104, 91, 79, 69, 60, 51, 44, 38, 33, 28, 24,
       20, 17, 15, 12, 10, 9, 7, 6, 5, 4, 4, 3, 2,
       2, 2, 1, 1, 1, 1, 1, 0, 0, 0, 0, 0, 0 >>

Interp(t, x) ==
    LET i == x \div TableStep
        f == x % TableStep
    IN  IF i + 1 >= Len(t) THEN t[Len(t)]
        ELSE t[i + 1] + ((t[i + 2] - t[i + 1]) * f) \div TableStep

CdfFix(d) == IF d >= 0 THEN Interp(CdfTable, d) ELSE SCALE - Interp(CdfTable, -d)
PdfFix(d) == Interp(PdfTable, Abs(d))

FCdf(a) ==
    Lift1(a, IF IsNaN(a) THEN NaN
             ELSE IF IsInf(a) THEN (IF a.v = 1 THEN Fin(SCALE) ELSE Fin(0))
             ELSE Fin(CdfFix(a.v)))

FPdf(a) ==
    Lift1(a, IF IsNaN(a) THEN NaN
             ELSE IF IsInf(a) THEN Fin(0)
             ELSE Fin(PdfFix(a.v)))

(***************************************************************************)
(* Black-Scholes helpers of heston_adapter.py                              *)
(***************************************************************************)
Zero == Fin(0)
Half == Fin(SCALE \div 2)

Discount(rate, T) == FExp(FNeg(FMul(rate, T)))

(* max(S e^{-qT} - K e^{-rT}, 0.0) *)
IntrinsicValue(S, K, T, r, q) ==
    PyMax(FSub(FMul(S, Discount(q, T)), FMul(K, Discount(r, T))), Zero)

bs_d1(S, K, T, r, q, sigma) ==
    FDiv(FAdd(FLog(PyDiv(S, K)),
              FMul(FAdd(FSub(r, q), FMul(Half, FMul(sigma, sigma))), T)),
         FMul(sigma, FSqrt(T)))

(* d2 and the return statement of _bs_call, from d1. *)
CallFromD1(S, K, T, r, q, sigma, d1) ==
    FSub(FMul(FMul(S, Discount(q, T)), FCdf(d1)),
         FMul(FMul(K, Discount(r, T)),
              FCdf(FSub(d1, FMul(sigma, FSqrt(T))))))

bs_call(S, K, T, r, q, sigma) ==
    IF FLe(T, Zero) \/ FLe(sigma, Zero) THEN IntrinsicValue(S, K, T, r, q)
    ELSE CallFromD1(S, K, T, r, q, sigma, bs_d1(S, K, T, r, q, sigma))

bs_vega(S, K, T, r, q, sigma) ==
    IF FLe(T, Zero) \/ FLe(sigma, Zero) THEN Zero
    ELSE FMul(FMul(FMul(S, Discount(q, T)), FPdf(bs_d1(S, K, T, r, q, sigma))),
              FSqrt(T))

(***************************************************************************)
(* bs_implied_vol.  a is the argument record                               *)
(* [price, S, K, T, r, q, option_type].                                    *)
(***************************************************************************)
SigmaStart    == 3000
NewtonMaxIter == 25
ClipLo        == 1
ClipHi        == 100000
VolLo         == 10
VolHi         == 50000

(* x < eps and x <= y + eps, for a positive eps below the grid's step. *)
LtEps(x)     == FLe(x, Zero)
LeEps(x, y)  == FLe(x, y)

(* A variant of the range test that accepts whatever the clip leaves:    *)
(* the Newton return without its own bounds.                             *)
InRangeClipOnly(sigma) == FLe(Fin(ClipLo), sigma) /\ FLe(sigma, Fin(ClipHi))

InRange(sigma) == FLe(Fin(VolLo), sigma) /\ FLe(sigma, Fin(VolHi))

(* A variant that leaves a put's price as it came. *)
PriceAsGiven(a) == a.price

(* Put to call by parity: price + S e^{-qT} - K e^{-rT}. *)
CallEquivalent(a) ==
    IF a.option_type = "put"
    THEN FSub(FAdd(a.price, FMul(a.S, Discount(a.q, a.T))),
              FMul(a.K, Discount(a.r, a.T)))
    ELSE a.price

UpperBound(a) == FMul(a.S, Discount(a.q, a.T))

OutsideArbitrage(price, a) ==
    \/ LeEps(price, IntrinsicValue(a.S, a.K, a.T, a.r, a.q))
    \/ FGe(price, UpperBound(a))

(* One pass of the Newton-Raphson loop body from sigma.  kind is          *)
(*   "return" converged, sigma is the result                              *)
(*   "break"  vega vanished, on to the fallback                           *)
(*   "next"   another iteration from sigma                                *)
(*   "raise"  an exception left the loop                                  *)
NewtonTest(step, s2) ==
    IF LtEps(FAbs(step)) /\ InRange(s2) THEN [kind |-> "return", sigma |-> s2]
    ELSE [kind |-> "next", sigma |-> s2]

NewtonUpdate(step, sigma) ==
    NewtonTest(step, FClip(FSub(sigma, step), Fin(ClipLo), Fin(ClipHi)))

(* A variant of the loop body without the test of vega. *)
NewtonUnguarded(p, v, price, sigma) ==
    IF IsRaise(p) \/ IsRaise(v) THEN [kind |-> "raise", sigma |-> sigma]
    ELSE NewtonUpdate(FDiv(FSub(p, price), v), sigma)

NewtonFrom(p, v, price, sigma) ==
    IF IsRaise(p) \/ IsRaise(v) THEN [kind |-> "raise", sigma |-> sigma]
    ELSE IF LtEps(v) THEN [kind |-> "break", sigma |-> sigma]
    ELSE NewtonUpdate(FDiv(FSub(p, price), v), sigma)

NewtonBody(a, price, sigma) ==
    NewtonFrom(bs_call(a.S, a.K, a.T, a.r, a.q, sigma),
               bs_vega(a.S, a.K, a.T, a.r, a.q, sigma), price, sigma)

(* a * b > 0 for two floats far from underflow: both nonzero, same sign. *)
ProductPositive(x, y) ==
    /\ ~IsNaN(x) /\ ~IsNaN(y)
    /\ FSign(x) * FSign(y) > 0

BrentF(a, price, s) == FSub(bs_call(a.S, a.K, a.T, a.r, a.q, Fin(s)), price)

(* scipy.optimize.brentq on a bracket whose end values are finite and not *)
(* of the same sign: an end point that is a root, else the root bisection *)
(* isolates to one grid step.                                             *)
RECURSIVE Bisect(_, _, _, _, _)
BisectStep(a, price, lo, hi, slo, mid, smid) ==
    IF smid = 0 THEN Fin(mid)
    ELSE IF smid = slo THEN Bisect(a, price, mid, hi, slo)
    ELSE Bisect(a, price, lo, mid, slo)

Bisect(a, price, lo, hi, slo) ==
    IF hi - lo <= 1 THEN Fin(hi)
    ELSE BisectStep(a, price, lo, hi, slo, (lo + hi) \div 2,
                    FSign(BrentF(a, price, (lo + hi) \div 2)))

(* With a NaN end value brentq's answer depends on the scipy build: newer *)
(* builds raise ValueError, older ones iterate on NaN and hand back some  *)
(* float.  nanpolicy names the build's answer.                            *)
NanPolicies == {"raise", "nan", "inside"}

BrentQ(a, price, fa, fb, nanpolicy) ==
    IF IsNaN(fa) \/ IsNaN(fb)
    THEN CASE nanpolicy = "raise"   -> Raise
           [] nanpolicy = "nan"     -> NaN
           [] nanpolicy = "inside"  -> Fin((VolLo + VolHi) \div 2)
    ELSE IF FSign(fa) = 0 THEN Fin(VolLo)
    ELSE IF FSign(fb) = 0 THEN Fin(VolHi)
    ELSE Bisect(a, price, VolLo, VolHi, FSign(fa))

(* A variant of the test of brentq's answer that lets any float through. *)
BrentUnchecked(sigma) == IF IsRaise(sigma) THEN None ELSE sigma

(* return sigma if 0.001 <= sigma <= 5.0 else None, and the except clause *)
BrentChecked(sigma) ==
    IF IsRaise(sigma) THEN None
    ELSE IF InRange(sigma) THEN sigma
    ELSE None

BrentBracket(a, price, fa, fb, nanpolicy) ==
    IF IsRaise(fa) \/ IsRaise(fb) THEN None
    ELSE IF ProductPositive(fa, fb) THEN None
    ELSE BrentChecked(BrentQ(a, price, fa, fb, nanpolicy))

(* The Brent fallback, try/except included. *)
BrentFallback(a, price, nanpolicy) ==
    BrentBracket(a, price, BrentF(a, price, VolLo), BrentF(a, price, VolHi),
                 nanpolicy)

RECURSIVE NewtonLoop(_, _, _, _, _)
NewtonAfter(a, price, b, it, nanpolicy) ==
    CASE b.kind = "return" -> b.sigma
      [] b.kind = "raise"  -> Raise
      [] b.kind = "break"  -> BrentFallback(a, price, nanpolicy)
      [] b.kind = "next"   -> NewtonLoop(a, price, b.sigma, it + 1, nanpolicy)

NewtonLoop(a, price, sigma, it, nanpolicy) ==
    IF it >= NewtonMaxIter THEN BrentFallback(a, price, nanpolicy)
    ELSE NewtonAfter(a, price, NewtonBody(a, price, sigma), it, nanpolicy)

ImpliedVolFrom(a, price, nanpolicy) ==
    IF OutsideArbitrage(price, a) THEN None
    ELSE NewtonLoop(a, price, Fin(SigmaStart), 0, nanpolicy)

(* The whole function: None, a float, or Raise. *)
bs_implied_vol(a, nanpolicy) ==
    IF FLe(a.T, Zero) THEN None
    ELSE ImpliedVolFrom(a, CallEquivalent(a), nanpolicy)

(***************************************************************************)
(* HestonAdapter.  a is the argument record                                *)
(* [S, K, T, r, q, v0, kappa, theta, sigma_v, rho].                        *)
(*                                                                         *)
(* The Gauss-Legendre sum of _P is complex arithmetic over 128 nodes and   *)
(* is not recomputed here.  What the code around it depends on is kept:    *)
(*   - S / K and a / sigma_v**2 are Python float divisions, so K = 0 or    *)
(*     sigma_v = 0 raises ZeroDivisionError inside the integrand;          *)
(*   - a NaN parameter makes every node of the integrand, hence P_j, NaN;  *)
(*   - np.exp overflows silently, so P_j can come out NaN or infinite;     *)
(*   - otherwise P_j is a finite number.  Its value is taken as that of    *)
(*     the constant-variance limit (sigma_v -> 0, theta = v0), where P1    *)
(*     and P2 are the Black-Scholes N(d1) and N(d2) at sigma = sqrt(v0),   *)
(*     plus a quadrature error.                                            *)
(* o = [k1, k2, err] names the outcome of the two sums: k1 and k2 are      *)
(* "ok", "nan" or "inf", err is the error added to P1.                     *)
(***************************************************************************)
QuadBigErr == SCALE \div 2

QuadOutcomes ==
    {[k1 |-> "ok", k2 |-> "ok", err |-> e] : e \in {0, QuadBigErr, -QuadBigErr}}
    \cup {[k1 |-> "nan", k2 |-> "nan", err |-> 0],
          [k1 |-> "inf", k2 |-> "ok", err |-> 0],
          [k1 |-> "ok", k2 |-> "inf", err |-> 0]}

QuadOk == [k1 |-> "ok", k2 |-> "ok", err |-> 0]

AnyNaN(a) ==
    \E x \in {a.S, a.K, a.T, a.r, a.q, a.v0, a.kappa, a.theta, a.sigma_v, a.rho} :
        IsNaN(x)

HestonP(a, j, o) ==
    LET vol == FSqrt(a.v0)
        d1  == bs_d1(a.S, a.K, a.T, a.r, a.q, vol)
        d2  == FSub(d1, FMul(vol, FSqrt(a.T)))
        k   == IF j = 1 THEN o.k1 ELSE o.k2
    IN  IF IsFin(a.sigma_v) /\ a.sigma_v.v = 0 THEN Raise
        ELSE IF IsFin(a.K) /\ a.K.v = 0 THEN Raise
        ELSE IF AnyNaN(a) THEN NaN
        ELSE IF k = "nan" THEN NaN
        ELSE IF k = "inf" THEN PInf
        ELSE IF j = 1 THEN FAdd(FCdf(d1), Fin(o.err))
        ELSE FCdf(d2)

HestonFloor(a) == IntrinsicValue(a.S, a.K, a.T, a.r, a.q)

(* raw = S e^{-qT} P1 - K e^{-rT} P2, or Raise when the try block raised. *)
HestonRaw(a, o) ==
    FSub(FMul(FMul(a.S, Discount(a.q, a.T)), HestonP(a, 1, o)),
         FMul(FMul(a.K, Discount(a.r, a.T)), HestonP(a, 2, o)))

(* return max(float(raw), floor), and the except clause *)
CallFromRaw(raw, floor) == IF IsRaise(raw) THEN floor ELSE PyMax(raw, floor)

price_call(a, o) ==
    IF FLe(a.T, Zero) THEN HestonFloor(a)
    ELSE CallFromRaw(HestonRaw(a, o), HestonFloor(a))

price_put(a, o) ==
    FSub(FAdd(price_call(a, o), FMul(a.K, Discount(a.r, a.T))),
         FMul(a.S, Discount(a.q, a.T)))

Forward(a) == FMul(a.S, FExp(FMul(FSub(a.r, a.q), a.T)))

HestonOptionType(a) == IF FGe(a.K, Forward(a)) THEN "call" ELSE "put"

HestonPrice(a, o, ty) ==
    IF ty = "call" THEN price_call(a, o) ELSE price_put(a, o)

HestonIvOf(a, o, ty, nanpolicy) ==
    bs_implied_vol([price |-> HestonPrice(a, o, ty), S |-> a.S, K |-> a.K,
                    T |-> a.T, r |-> a.r, q |-> a.q, option_type |-> ty],
                   nanpolicy)

heston_iv(a, o, nanpolicy) ==
    IF FLe(a.T, Zero) THEN None
    ELSE HestonIvOf(a, o, HestonOptionType(a), nanpolicy)

(***************************************************************************)
(* generate_surface.  quad[i][j] is the quadrature outcome at the node of  *)
(* maturity i and strike j.  The result is Raise or the returned dict.     *)
(***************************************************************************)
MoneynessLo  == 7000
MoneynessHi  == 13000
MaturityLo   == SCALE \div 12
MaturityHi   == 2 * SCALE
DefaultStrikes    == 20
DefaultMaturities == 8

(* np.linspace(a, b, n) for n >= 0, as a list. *)
Linspace(a, b, n) ==
    [k \in 1..n |-> IF n = 1 THEN Fin(a)
                    ELSE Fin(a + ((b - a) * (k - 1)) \div (n - 1))]

(* round(iv * 100, 4) if iv is not None else None; the grid holds four    *)
(* decimals of a percentage exactly.                                      *)
NodeValue(ivol) ==
    IF IsNone(ivol) THEN None ELSE FMul(ivol, Fin(100 * SCALE))

NodeArgs(S, r, q, params, K, T) ==
    [S |-> S, K |-> K, T |-> T, r |-> r, q |-> q,
     v0 |-> params.v0, kappa |-> params.kappa, theta |-> params.theta,
     sigma_v |-> params.sigma_v, rho |-> params.rho]

(* A list under construction, or the exception that ended the loop. *)
ListOk(l)   == [c |-> "list", v |-> l]
ListRaised  == [c |-> "raise", v |-> << >>]

(* A variant of row.append that leaves an unresolved node out of the row. *)
AppendResolved(row, ivol) ==
    IF IsNone(ivol) THEN row ELSE Append(row, NodeValue(ivol))

(* row.append(round(iv * 100, 4) if iv is not None else None) *)
AppendNode(row, ivol) == Append(row, NodeValue(ivol))

(* The inner loop: row.append(...) for each K in strikes, from index j. *)
RECURSIVE SurfaceRowFrom(_, _, _, _, _, _, _, _, _, _)
SurfaceRowNext(S, r, q, params, T, strikes, orow, nanpolicy, j, row, ivol) ==
    IF IsRaise(ivol) THEN ListRaised
    ELSE SurfaceRowFrom(S, r, q, params, T, strikes, orow, nanpolicy, j + 1,
                        AppendNode(row, ivol))

SurfaceRowFrom(S, r, q, params, T, strikes, orow, nanpolicy, j, row) ==
    IF j > Len(strikes) THEN ListOk(row)
    ELSE SurfaceRowNext(S, r, q, params, T, strikes, orow, nanpolicy, j, row,
                        heston_iv(NodeArgs(S, r, q, params, strikes[j], T),
                                  orow[j], nanpolicy))

(* A variant of the row that fills an unresolved node from the node to   *)
(* its left.                                                              *)
RECURSIVE FillForward(_, _)
FillForward(row, k) ==
    IF k > Len(row) THEN row
    ELSE FillForward(IF k > 1 /\ IsNone(row[k]) THEN [row EXCEPT ![k] = row[k - 1]]
                     ELSE row, k + 1)

FilledRow(row) == IF row.c = "raise" THEN row ELSE ListOk(FillForward(row.v, 1))

SurfaceRowFilled(S, r, q, params, T, strikes, orow, nanpolicy) ==
    FilledRow(SurfaceRowFrom(S, r, q, params, T, strikes, orow, nanpolicy,
                             1, << >>))

SurfaceRow(S, r, q, params, T, strikes, orow, nanpolicy) ==
    SurfaceRowFrom(S, r, q, params, T, strikes, orow, nanpolicy, 1, << >>)

(* The outer loop: ivs.append(row) for each T in maturities, from index i. *)
RECURSIVE SurfaceRowsFrom(_, _, _, _, _, _, _, _, _, _)
SurfaceRowsNext(S, r, q, params, maturities, strikes, quad, nanpolicy, i, ivs, row) ==
    IF row.c = "raise" THEN ListRaised
    ELSE SurfaceRowsFrom(S, r, q, params, maturities, strikes, quad, nanpolicy,
                         i + 1, Append(ivs, row.v))

SurfaceRowsFrom(S, r, q, params, maturities, strikes, quad, nanpolicy, i, ivs) ==
    IF i > Len(maturities) THEN ListOk(ivs)
    ELSE SurfaceRowsNext(S, r, q, params, maturities, strikes, quad, nanpolicy,
                         i, ivs,
                         SurfaceRow(S, r, q, params, maturities[i], strikes,
                                    quad[i], nanpolicy))

SurfaceRaised == [c |-> "raise"]

(* The returned dict, or the exception of a node that raised. *)
SurfaceDict(strikes, moneyness, maturities, ivs) ==
    IF ivs.c = "raise" THEN SurfaceRaised
    ELSE [c                |-> "dict",
          strikes          |-> strikes,
          moneyness        |-> moneyness,
          maturities_years |-> maturities,
          implied_vols     |-> ivs.v]

SurfaceOver(S, r, q, params, moneyness, strikes, maturities, quad, nanpolicy) ==
    SurfaceDict(strikes, moneyness, maturities,
                SurfaceRowsFrom(S, r, q, params, maturities, strikes, quad,
                                nanpolicy, 1, << >>))

StrikesOf(S, moneyness) == [k \in 1..Len(moneyness) |-> FMul(moneyness[k], S)]

SurfaceOn(S, r, q, params, moneyness, maturities, quad, nanpolicy) ==
    SurfaceOver(S, r, q, params, moneyness, StrikesOf(S, moneyness), maturities,
                quad, nanpolicy)

(* np.linspace raises ValueError on a negative count. *)
generate_surface(S, r, q, params, n_strikes, n_maturities, quad, nanpolicy) ==
    IF n_strikes < 0 \/ n_maturities < 0 THEN SurfaceRaised
    ELSE SurfaceOn(S, r, q, params,
                   Linspace(MoneynessLo, MoneynessHi, n_strikes),
                   Linspace(MaturityLo, MaturityHi, n_maturities),
                   quad, nanpolicy)

(***************************************************************************)
(* calibrate.  A market point is [K, T, iv, weight]; x is the parameter    *)
(* vector << v0, kappa, theta, sigma_v, rho >> in fixed point.             *)
(***************************************************************************)
MinPoints == 5
Penalty   == 2500

BoundsLo == << 1, 1000, 1, 500, -9900 >>
BoundsHi == << 9000, 150000, 9000, 20000, 9900 >>

(* A variant of the count test that lets a basket of four through. *)
TooFewPointsBelowFour(points) == Len(points) < MinPoints - 1

(* len(market_points) < 5 *)
TooFewPoints(points) == Len(points) < MinPoints

(* np.median of a list of finite numbers: sort, then the middle element   *)
(* or the mean of the two middle elements.                                *)
RECURSIVE SortInsert(_, _)
SortInsert(sorted, n) ==
    IF sorted = << >> THEN << n >>
    ELSE IF n <= Head(sorted) THEN << n >> \o sorted
    ELSE << Head(sorted) >> \o SortInsert(Tail(sorted), n)

RECURSIVE SortAll(_)
SortAll(l) == IF l = << >> THEN << >> ELSE SortInsert(SortAll(Tail(l)), Head(l))

Middle(sorted, n) ==
    IF n % 2 = 1 THEN sorted[(n + 1) \div 2]
    ELSE (sorted[n \div 2] + sorted[n \div 2 + 1]) \div 2

Median(l) == Middle(SortAll(l), Len(l))

RECURSIVE VolsOf(_, _)
VolsOf(points, k) ==
    IF k = 0 THEN << >> ELSE Append(VolsOf(points, k - 1), points[k].iv.v)

GuessFrom(var) ==
    << var, 2 * SCALE, var, (4 * SCALE) \div 10, -((7 * SCALE) \div 10) >>

(* A variant of the start point that takes the median vol unsquared. *)
InitialGuessOfVol(points) == GuessFrom(Median(VolsOf(points, Len(points))))

(* x0 = [atm_iv**2, 2.0, atm_iv**2, 0.4, -0.7] *)
InitialGuess(points) == GuessFrom(Square(Median(VolsOf(points, Len(points)))))

InBounds(x) == \A k \in 1..5 : BoundsLo[k] <= x[k] /\ x[k] <= BoundsHi[k]

(* A variant of the start that takes x0 as given. *)
Unclipped(x) == x

(* L-BFGS-B starts from x0 projected on the box of the bounds. *)
ClipToBounds(x) == [k \in 1..5 |-> Min2(Max2(x[k], BoundsLo[k]), BoundsHi[k])]

ParamsOf(x) ==
    [v0 |-> Fin(x[1]), kappa |-> Fin(x[2]), theta |-> Fin(x[3]),
     sigma_v |-> Fin(x[4]), rho |-> Fin(x[5])]

(* One pass of the loop body of objective: what the point adds to total,  *)
(* and by which branch.  kind is                                          *)
(*   "fit"     the weighted squared error, n counts the point             *)
(*   "penalty" the else branch                                            *)
(*   "raised"  the except branch                                          *)
FSquare(d) == FMul(d, d)

TermOf(pt, iv_mdl) ==
    IF IsRaise(iv_mdl) THEN [kind |-> "raised", add |-> Fin(Penalty)]
    ELSE IF ~IsNone(iv_mdl) /\ FLt(Fin(VolLo), iv_mdl) /\ FLt(iv_mdl, Fin(VolHi))
         THEN [kind |-> "fit",
               add  |-> FMul(pt.weight, FSquare(FSub(iv_mdl, pt.iv)))]
    ELSE [kind |-> "penalty", add |-> FMul(pt.weight, Fin(Penalty))]

PointTerm(pt, S, r, q, x, o, nanpolicy) ==
    TermOf(pt, heston_iv(NodeArgs(S, r, q, ParamsOf(x), pt.K, pt.T), o,
                         nanpolicy))

(* The terms of the points 1..k, in the loop's order. *)
RECURSIVE TermsTo(_, _, _, _, _, _, _, _)
TermsTo(points, S, r, q, x, quad, nanpolicy, k) ==
    IF k = 0 THEN << >>
    ELSE Append(TermsTo(points, S, r, q, x, quad, nanpolicy, k - 1),
                PointTerm(points[k], S, r, q, x, quad[k], nanpolicy))

Terms(points, S, r, q, x, quad, nanpolicy) ==
    TermsTo(points, S, r, q, x, quad, nanpolicy, Len(points))

RECURSIVE TotalOf(_, _)
TotalOf(terms, k) ==
    IF k = 0 THEN Zero ELSE FAdd(TotalOf(terms, k - 1), terms[k].add)

FitCount(terms) == Cardinality({k \in 1..Len(terms) : terms[k].kind = "fit"})

(* return total / max(n, 1) *)
objective(terms) ==
    FDiv(TotalOf(terms, Len(terms)), Fin(Max2(FitCount(terms), 1) * SCALE))

(* A variant of the flag that reports every run as converged. *)
AlwaysSuccess(status) == TRUE

(* OptimizeResult.success of L-BFGS-B: status 0 is convergence, 1 is the  *)
(* iteration or evaluation limit, 2 an abnormal stop.                     *)
OptStatus == {0, 1, 2}
SuccessFlag(status) == status = 0

(* The returned dict. *)
CalibrationResult(x, fun, status, points) ==
    [v0 |-> Fin(x[1]), kappa |-> Fin(x[2]), theta |-> Fin(x[3]),
     sigma_v |-> Fin(x[4]), rho |-> Fin(x[5]),
     rmse |-> FSqrt(fun),
     success |-> SuccessFlag(status),
     n_points |-> Len(points)]

(***************************************************************************)
(* BlackScholesAdapter.  a is [S, K, days, r, q, sigma, is_call, quantity] *)
(* with days = (maturity - today).days.                                    *)
(*                                                                         *)
(* The floor 1e-6 of _time_to_maturity lies below the grid: a floored T is *)
(* carried as T = 0 with its square root 0.001, so that sigma * sqrt(T)    *)
(* stays the nonzero number the code divides by.                           *)
(***************************************************************************)
DaysPerYear == 365
FloorSqrt   == SCALE \div 1000

(* max(days / 365.0, 1e-6), with its square root *)
YearsOf(t) ==
    IF t >= 1 THEN [T |-> Fin(t), sqrtT |-> FSqrt(Fin(t)), floored |-> FALSE]
    ELSE [T |-> Zero, sqrtT |-> Fin(FloorSqrt), floored |-> TRUE]

time_to_maturity(days) == YearsOf((days * SCALE) \div DaysPerYear)

Hundred == Fin(100 * SCALE)

BsD1(a, tm) ==
    FDiv(FAdd(FLog(PyDiv(a.S, a.K)),
              FMul(FAdd(FSub(a.r, a.q), FMul(Half, FMul(a.sigma, a.sigma))),
                   tm.T)),
         FMul(a.sigma, tm.sqrtT))

BsD2(d1, a, tm) == FSub(d1, FMul(a.sigma, tm.sqrtT))

(* A variant of the signed quantity that drops the sign. *)
QuantityUnsigned(a) == Fin(Abs(a.quantity) * SCALE)

BsQuantity(a)    == Fin(a.quantity * SCALE)
BsAbsQuantity(a) == Fin(Abs(a.quantity) * SCALE)

(* A variant of the price that uses the call's formula for a put too. *)
PriceOfCall(a, d1, d2, dfq, dfr) ==
    FSub(FMul(FMul(a.S, dfq), FCdf(d1)), FMul(FMul(a.K, dfr), FCdf(d2)))

BsPriceFrom(a, d1, d2, dfq, dfr) ==
    IF a.is_call
    THEN FSub(FMul(FMul(a.S, dfq), FCdf(d1)), FMul(FMul(a.K, dfr), FCdf(d2)))
    ELSE FSub(FMul(FMul(a.K, dfr), FCdf(FNeg(d2))),
              FMul(FMul(a.S, dfq), FCdf(FNeg(d1))))

BsPriceAt(a, tm, d1) ==
    FMul(BsPriceFrom(a, d1, BsD2(d1, a, tm), Discount(a.q, tm.T),
                     Discount(a.r, tm.T)),
         BsAbsQuantity(a))

(* BlackScholesAdapter.price *)
BsPriceWith(a, tm) == BsPriceAt(a, tm, BsD1(a, tm))
BsPriceOf(a) == BsPriceWith(a, time_to_maturity(a.days))

(* A variant of delta that forgets the sign of a put. *)
DeltaOfCall(a, d1, dfq) == FMul(dfq, FCdf(d1))

BsDelta(a, d1, dfq) ==
    IF a.is_call THEN FMul(dfq, FCdf(d1)) ELSE FNeg(FMul(dfq, FCdf(FNeg(d1))))

BsGamma(a, tm, d1, dfq) ==
    FDiv(FMul(dfq, FPdf(d1)), FMul(FMul(a.S, a.sigma), tm.sqrtT))

BsVega(a, tm, d1, dfq) ==
    FDiv(FMul(FMul(FMul(a.S, dfq), FPdf(d1)), tm.sqrtT), Hundred)

BsDecay(a, tm, d1, dfq) ==
    FNeg(FDiv(FMul(FMul(FMul(a.S, dfq), FPdf(d1)), a.sigma),
              FMul(Fin(2 * SCALE), tm.sqrtT)))

BsTheta(a, tm, d1, d2, dfq, dfr) ==
    IF a.is_call
    THEN FDiv(FAdd(FSub(BsDecay(a, tm, d1, dfq),
                        FMul(FMul(FMul(a.r, a.K), dfr), FCdf(d2))),
                   FMul(FMul(FMul(a.q, a.S), dfq), FCdf(d1))),
              Fin(DaysPerYear * SCALE))
    ELSE FDiv(FSub(FAdd(BsDecay(a, tm, d1, dfq),
                        FMul(FMul(FMul(a.r, a.K), dfr), FCdf(FNeg(d2)))),
                   FMul(FMul(FMul(a.q, a.S), dfq), FCdf(FNeg(d1)))),
              Fin(DaysPerYear * SCALE))

BsRho(a, tm, d2, dfr) ==
    IF a.is_call
    THEN FDiv(FMul(FMul(FMul(a.K, tm.T), dfr), FCdf(d2)), Hundred)
    ELSE FDiv(FNeg(FMul(FMul(FMul(a.K, tm.T), dfr), FCdf(FNeg(d2)))), Hundred)

BsGreeksFrom(a, tm, d1, d2, dfq, dfr) ==
    IF IsRaise(d1) THEN Raise
    ELSE [c     |-> "greeks",
          delta |-> FMul(BsDelta(a, d1, dfq), BsQuantity(a)),
          gamma |-> FMul(BsGamma(a, tm, d1, dfq), BsAbsQuantity(a)),
          vega  |-> FMul(BsVega(a, tm, d1, dfq), BsAbsQuantity(a)),
          theta |-> FMul(BsTheta(a, tm, d1, d2, dfq, dfr), BsAbsQuantity(a)),
          rho   |-> FMul(BsRho(a, tm, d2, dfr), BsQuantity(a))]

BsGreeksAt(a, tm, d1) ==
    BsGreeksFrom(a, tm, d1, BsD2(d1, a, tm), Discount(a.q, tm.T),
                 Discount(a.r, tm.T))

(* BlackScholesAdapter.greeks: Raise, or the Greeks value object. *)
BsGreeksWith(a, tm) == BsGreeksAt(a, tm, BsD1(a, tm))
BsGreeksOf(a) == BsGreeksWith(a, time_to_maturity(a.days))

(* The statement a call of price or greeks got to: "d1" when _d1 raised,  *)
(* "return" when the call returned.  Neither method has a statement that  *)
(* tests its inputs.                                                      *)
BsReached(a) ==
    IF IsRaise(BsD1(a, time_to_maturity(a.days))) THEN "d1" ELSE "return"

(***************************************************************************)
(* The instance state of a HestonAdapter: the quadrature nodes _phi and    *)
(* weights _w that __init__ computes.  A two-point Gauss-Legendre rule     *)
(* stands for leggauss(128).  The sum _P takes is linear in the weights:   *)
(* with the weights as constructed it is the probability HestonP gives.    *)
(***************************************************************************)
PhiLo == 10
PhiHi == 1000000

LegendreX == << -5774, 5774 >>
LegendreW == << SCALE, SCALE >>

(* __init__: the rule mapped from [-1, 1] to [PHI_LO, PHI_HI] *)
Quadrature ==
    [phi |-> [k \in 1..Len(LegendreX) |->
                 MulFix((PhiHi - PhiLo) \div 2, LegendreX[k]) + (PhiHi + PhiLo) \div 2],
     w   |-> [k \in 1..Len(LegendreW) |->
                 MulFix((PhiHi - PhiLo) \div 2, LegendreW[k])]]

RECURSIVE SumTo(_, _)
SumTo(w, k) == IF k = 0 THEN 0 ELSE SumTo(w, k - 1) + w[k]

(* The weights' total over the length of the interval: 1 as constructed. *)
QuadFactor(inst) == DivFix(SumTo(inst.w, Len(inst.w)), PhiHi - PhiLo)

(* _P on the instance state inst: 0.5 + sum(self._w * integ) / pi *)
PWith(inst, a, j, o) ==
    FAdd(Half, FMul(FSub(HestonP(a, j, o), Half), Fin(QuadFactor(inst))))

(* A variant of _P that normalises the weights in place. *)
Pi == 31416
WeightsOverPi(inst) ==
    [inst EXCEPT !.w = [k \in 1..Len(inst.w) |-> DivFix(inst.w[k], Pi)]]

(* The instance state after a call of _P: _P assigns no attribute. *)
InstAfterP(inst) == inst

(* raw of price_call from the two sums *)
RawFromP(a, p1, p2) ==
    FSub(FMul(FMul(a.S, Discount(a.q, a.T)), p1),
         FMul(FMul(a.K, Discount(a.r, a.T)), p2))

(* price_put from the call price *)
PutFromCall(a, call) ==
    FSub(FAdd(call, FMul(a.K, Discount(a.r, a.T))), FMul(a.S, Discount(a.q, a.T)))

(* heston_iv from the call price for a T > 0 *)
IvFromCallOf(a, call, ty, nanpolicy) ==
    bs_implied_vol([price |-> IF ty = "call" THEN call ELSE PutFromCall(a, call),
                    S |-> a.S, K |-> a.K, T |-> a.T, r |-> a.r, q |-> a.q,
                    option_type |-> ty], nanpolicy)

(* What one pricing task returns, price_call having returned call:        *)
(* kind "call" is price_call, "put" price_put, "iv" heston_iv.             *)
TaskResult(kind, a, call, nanpolicy) ==
    CASE kind = "call" -> call
      [] kind = "put"  -> PutFromCall(a, call)
      [] kind = "iv"   -> IF FLe(a.T, Zero) THEN None
                          ELSE IvFromCallOf(a, call, HestonOptionType(a), nanpolicy)

(* The rows of a grid from the node values in loop order. *)
RowsOf(outs, ns, nm) ==
    [i \in 1..nm |-> [j \in 1..ns |-> NodeValue(outs[(i - 1) * ns + j])]]

(* What an operation returns from the results of its pricing tasks. *)
Assemble(job, outs) ==
    CASE job.op = "generate_surface" ->
             SurfaceDict(job.strikes, job.moneyness, job.maturities,
                         ListOk(RowsOf(outs, Len(job.strikes), Len(job.maturities))))
      [] job.op = "objective" ->
             objective([k \in 1..Len(outs) |-> TermOf(job.points[k], outs[k])])
      [] OTHER -> outs[1]

(***************************************************************************)
(* State.  Each component keeps the record of the call in progress.        *)
(***************************************************************************)
VARIABLES
    lib,    \* the scipy build's brentq answer on NaN: a member of NanPolicies
    iv,     \* bs_implied_vol: [args, pc, price, sigma, it, ret, via]
    hes,    \* HestonAdapter pricing call: [op, args, quad, ret]
    sf,     \* generate_surface call: [pc, S, r, q, params, n_strikes,
            \*                         n_maturities, quad, ret]
    cal,    \* calibrate call: [pc, points, S, r, q, x, fun, terms, evals,
            \*                  priced, status, ret]
    bsa,    \* BlackScholesAdapter call: [op, args, reached, ret]
    inst,   \* the shared HestonAdapter's attributes: [phi, w]
    calls   \* the callers of the shared instance: caller -> [pc, job, k, p1,
            \*                                     outs, ret, alone, overlapped]

vars == << lib, iv, hes, sf, cal, bsa, inst, calls >>

(***************************************************************************)
(* bs_implied_vol, one step per statement group.  pc is                    *)
(*   "entry"  before the T check, the parity conversion and the bounds     *)
(*   "newton" at the head of the Newton-Raphson loop, it passes done       *)
(*   "brent"  at the fallback                                              *)
(*   "done"   returned ret (None or a float);  "raised" left by exception  *)
(* via names the statement that returned: "entry", "newton" or "brent".    *)
(***************************************************************************)
IvPrices ==
    {NaN, PInf, NInf} \cup
    {Fin(n) : n \in {-100, 0, 2, 3, 500, 1045, 3000, 9864, 9900, 10000, 12000}}

IvArgs ==
    [price : IvPrices,
     S : {Fin(SCALE)},
     K : {Fin(0), Fin(8000), Fin(SCALE), Fin(12500)},
     T : {Fin(0), Fin(833), Fin(SCALE)},
     r : {Fin(500)},
     q : {Fin(0), Fin(200)},
     option_type : {"call", "put"}]

IvStart(a) ==
    [args |-> a, pc |-> "entry", price |-> None,
     sigma |-> Fin(SigmaStart), it |-> 0, ret |-> None, via |-> "none"]

IvIdle == [args |-> None, pc |-> "idle", price |-> None,
           sigma |-> None, it |-> 0, ret |-> None, via |-> "none"]

IvEnter ==
    /\ iv.pc = "entry"
    /\ \E price \in {CallEquivalent(iv.args)} :
          iv' = IF FLe(iv.args.T, Zero)
                THEN [iv EXCEPT !.pc = "done", !.ret = None, !.via = "entry"]
                ELSE IF OutsideArbitrage(price, iv.args)
                THEN [iv EXCEPT !.pc = "done", !.ret = None, !.price = price,
                                !.via = "entry"]
                ELSE [iv EXCEPT !.pc = "newton", !.price = price]
    /\ UNCHANGED << lib, hes, sf, cal, bsa, inst, calls >>

IvNewton ==
    /\ iv.pc = "newton"
    /\ \E b \in {IF iv.it >= NewtonMaxIter
                   THEN [kind |-> "break", sigma |-> iv.sigma]
                   ELSE NewtonBody(iv.args, iv.price, iv.sigma)} :
          iv' = CASE b.kind = "return" ->
                       [iv EXCEPT !.pc = "done", !.ret = b.sigma,
                                  !.sigma = b.sigma, !.it = @ + 1,
                                  !.via = "newton"]
                  [] b.kind = "raise" -> [iv EXCEPT !.pc = "raised"]
                  [] b.kind = "break" -> [iv EXCEPT !.pc = "brent"]
                  [] b.kind = "next"  ->
                       [iv EXCEPT !.sigma = b.sigma, !.it = @ + 1]
    /\ UNCHANGED << lib, hes, sf, cal, bsa, inst, calls >>

IvBrent ==
    /\ iv.pc = "brent"
    /\ iv' = [iv EXCEPT !.pc = "done", !.via = "brent",
                        !.ret = BrentFallback(iv.args, iv.price, lib)]
    /\ UNCHANGED << lib, hes, sf, cal, bsa, inst, calls >>

HesIdle == [op |-> "idle", args |-> None, quad |-> QuadOk, ret |-> None]

SfIdle == [pc |-> "idle", S |-> None, r |-> None, q |-> None, params |-> None,
           n_strikes |-> 0, n_maturities |-> 0, quad |-> << >>,
           ret |-> SurfaceRaised]

CalIdle == [pc |-> "idle", points |-> << >>, S |-> None, r |-> None,
            q |-> None, x |-> << >>, fun |-> None, terms |-> << >>,
            evals |-> 0, priced |-> 0, status |-> 0, ret |-> None]

BsaIdle == [op |-> "idle", args |-> None, reached |-> "none", ret |-> None]

Callers == {"a", "b"}

NoJob == [op |-> "none", tasks |-> << >>]

CallIdle == [pc |-> "idle", job |-> NoJob, k |-> 0, p1 |-> None, outs |-> << >>,
             ret |-> None, alone |-> None, overlapped |-> FALSE]

CallsIdle == [c \in Callers |-> CallIdle]

InitIV ==
    /\ lib \in NanPolicies
    /\ iv \in {IvStart(a) : a \in IvArgs}
    /\ hes = HesIdle
    /\ sf = SfIdle
    /\ cal = CalIdle
    /\ bsa = BsaIdle
    /\ inst = Quadrature
    /\ calls = CallsIdle

NextIV == IvEnter \/ IvNewton \/ IvBrent

SpecIV == InitIV /\ [][NextIV]_vars

(* C1 (as the code has it): whenever bs_implied_vol returns, on the Newton *)
(* path or the fallback path, the result is None or a volatility in the    *)
(* closed range [0.001, 5.0].                                              *)
C1_ClosedRange ==
    iv.pc = "done" =>
        \/ IsNone(iv.ret)
        \/ IsFin(iv.ret) /\ VolLo <= iv.ret.v /\ iv.ret.v <= VolHi

(* The fallback has returned the end point 5.0 itself. *)
C1_EndPointReturned ==
    iv.pc = "done" /\ iv.via = "brent" /\ iv.ret = Fin(VolHi)

(* C1 as stated: the result is None or strictly inside (0.001, 5.0). *)
C1_StrictlyInside ==
    iv.pc = "done" =>
        \/ IsNone(iv.ret)
        \/ IsFin(iv.ret) /\ VolLo < iv.ret.v /\ iv.ret.v < VolHi

(* The price in call space, by parity, and the arbitrage bounds, written   *)
(* out from the arguments of the call in progress.                         *)
ParityPrice ==
    IF iv.args.option_type = "put"
    THEN FSub(FAdd(iv.args.price, FMul(iv.args.S, Discount(iv.args.q, iv.args.T))),
              FMul(iv.args.K, Discount(iv.args.r, iv.args.T)))
    ELSE iv.args.price
LowerArbitrage ==
    PyMax(FSub(FMul(iv.args.S, Discount(iv.args.q, iv.args.T)),
               FMul(iv.args.K, Discount(iv.args.r, iv.args.T))), Zero)
UpperArbitrage == FMul(iv.args.S, Discount(iv.args.q, iv.args.T))

(* C11: once past its entry, a call whose price in call space (a put's by  *)
(* parity) lies below the intrinsic value or at or above S e^{-qT} has     *)
(* returned None from the entry, with no Newton-Raphson pass and no        *)
(* fallback run.                                                           *)
C11_OutsideBoundsRejected ==
    (/\ iv.pc \notin {"idle", "entry"}
     /\ FLt(ParityPrice, LowerArbitrage) \/ FGe(ParityPrice, UpperArbitrage)) =>
        /\ iv.pc = "done" /\ IsNone(iv.ret)
        /\ iv.via = "entry" /\ iv.it = 0

(* A put whose raw price lies within the bounds, but whose call-space      *)
(* price is at or above S e^{-qT}, has been rejected at the entry.         *)
C11_PutRejectedInCallSpace ==
    /\ iv.pc = "done" /\ iv.via = "entry" /\ IsNone(iv.ret)
    /\ iv.args.option_type = "put" /\ FGt(iv.args.T, Zero)
    /\ FGt(iv.args.price, LowerArbitrage)
    /\ FLt(iv.args.price, UpperArbitrage)
    /\ FGe(ParityPrice, UpperArbitrage)

(***************************************************************************)
(* HestonAdapter: one call of price_call, price_put, heston_iv or          *)
(* generate_surface on a fresh adapter.                                    *)
(***************************************************************************)
HesArgs ==
    [S : {Fin(SCALE)},
     K : {Fin(0), Fin(7000), Fin(SCALE), Fin(13000)},
     T : {Fin(0), Fin(833), Fin(SCALE)},
     r : {Fin(300)},
     q : {Fin(0)},
     v0 : {Fin(400), NaN},
     kappa : {Fin(2 * SCALE)},
     theta : {Fin(400)},
     sigma_v : {Fin(0), Fin(4000)},
     rho : {Fin(-7000)}]

PriceCall ==
    /\ hes.op = "idle" /\ sf.pc = "idle"
    /\ \E a \in HesArgs, o \in QuadOutcomes :
         hes' = [op |-> "price_call", args |-> a, quad |-> o,
                 ret |-> price_call(a, o)]
    /\ UNCHANGED << lib, iv, sf, cal, bsa, inst, calls >>

PricePut ==
    /\ hes.op = "idle" /\ sf.pc = "idle"
    /\ \E a \in HesArgs, o \in QuadOutcomes :
         hes' = [op |-> "price_put", args |-> a, quad |-> o,
                 ret |-> price_put(a, o)]
    /\ UNCHANGED << lib, iv, sf, cal, bsa, inst, calls >>

HestonIv ==
    /\ hes.op = "idle" /\ sf.pc = "idle"
    /\ \E a \in HesArgs, o \in QuadOutcomes :
         hes' = [op |-> "heston_iv", args |-> a, quad |-> o,
                 ret |-> heston_iv(a, o, lib)]
    /\ UNCHANGED << lib, iv, sf, cal, bsa, inst, calls >>

MaxStrikes    == 3
MaxMaturities == 2

SurfaceParams ==
    [v0 : {Fin(400), NaN}, kappa : {Fin(2 * SCALE)}, theta : {Fin(400)},
     sigma_v : {Fin(0), Fin(4000)}, rho : {Fin(-7000)}]

NominalParams ==
    [v0 |-> Fin(400), kappa |-> Fin(2 * SCALE), theta |-> Fin(400),
     sigma_v |-> Fin(4000), rho |-> Fin(-7000)]

SurfaceShapes == (-1 .. MaxStrikes) \X (-1 .. MaxMaturities)

(* The nodes whose quadrature goes wrong: none, or one node of the grid. *)
BadSets(ns, nm) ==
    {{}} \cup {{<< i, j >>} : i \in 1..nm, j \in 1..ns}

SurfaceQuad(ns, nm, bad, o) ==
    [i \in 1..nm |-> [j \in 1..ns |-> IF << i, j >> \in bad THEN o ELSE QuadOk]]

(* The ways a node's quadrature goes wrong in a surface call: NaN sums,    *)
(* and a sum far off the probability it approximates.                      *)
SurfaceFailures ==
    {[k1 |-> "nan", k2 |-> "nan", err |-> 0],
     [k1 |-> "ok", k2 |-> "ok", err |-> QuadBigErr]}

(* The calls of one shape: every parameter set with a sound quadrature,   *)
(* and the nominal parameters with each node failing in each way.         *)
CallsOfShape(sh) ==
    {[shape |-> sh, params |-> pa, bad |-> {}, o |-> QuadOk] :
        pa \in SurfaceParams}
    \cup
    {[shape |-> sh, params |-> NominalParams, bad |-> b, o |-> o] :
        b \in BadSets(sh[1], sh[2]) \ {{}}, o \in SurfaceFailures}

(* The calls made: those of every small shape, and the default 20 x 8     *)
(* shape with the nominal parameters.                                      *)
SurfaceCalls ==
    UNION {CallsOfShape(sh) : sh \in SurfaceShapes}
    \cup
    {[shape |-> << DefaultStrikes, DefaultMaturities >>,
      params |-> NominalParams, bad |-> {}, o |-> QuadOk]}

GenerateSurface ==
    /\ hes.op = "idle" /\ sf.pc = "idle"
    /\ \E c \in SurfaceCalls :
          \E quad \in {SurfaceQuad(c.shape[1], c.shape[2], c.bad, c.o)} :
             sf' = [pc |-> "done", S |-> Fin(SCALE), r |-> Fin(300), q |-> Zero,
                    params |-> c.params, n_strikes |-> c.shape[1],
                    n_maturities |-> c.shape[2], quad |-> quad,
                    ret |-> generate_surface(Fin(SCALE), Fin(300), Zero,
                                             c.params, c.shape[1], c.shape[2],
                                             quad, lib)]
    /\ UNCHANGED << lib, iv, hes, cal, bsa, inst, calls >>

InitHeston ==
    /\ lib \in NanPolicies
    /\ iv = IvIdle
    /\ hes = HesIdle
    /\ sf = SfIdle
    /\ cal = CalIdle
    /\ bsa = BsaIdle
    /\ inst = Quadrature
    /\ calls = CallsIdle

NextHeston == PriceCall \/ PricePut \/ HestonIv \/ GenerateSurface

SpecHeston == InitHeston /\ [][NextHeston]_vars

(* The grid of a finished generate_surface call and its nodes. *)
SurfaceDone == sf.pc = "done" /\ sf.ret.c = "dict"
Grid        == sf.ret.implied_vols
GridNodes   == {<< i, j >> : i \in 1..sf.n_maturities, j \in 1..sf.n_strikes}

(* C2 as stated: price_call returns a finite number at least the intrinsic *)
(* floor, and exactly the floor when the quadrature's raw value is NaN,    *)
(* infinite or an exception.                                               *)
C2_FiniteAboveFloor ==
    hes.op = "price_call" =>
        LET floor == HestonFloor(hes.args)
            raw   == HestonRaw(hes.args, hes.quad)
        IN  /\ IsFin(hes.ret)
            /\ FGe(hes.ret, floor)
            /\ (FGt(hes.args.T, Zero) /\ ~IsFin(raw)) => hes.ret = floor

(* C4: heston_iv never returns NaN or an infinity: what it returns is None *)
(* or a finite volatility, and every node of a returned implied_vols grid  *)
(* is None or a finite number.                                             *)
C4_NoNaN ==
    /\ (hes.op = "heston_iv" /\ ~IsRaise(hes.ret)) =>
            IsNone(hes.ret) \/ IsFin(hes.ret)
    /\ SurfaceDone =>
            \A n \in GridNodes :
                IsNone(Grid[n[1]][n[2]]) \/ IsFin(Grid[n[1]][n[2]])

(* heston_iv has returned None although the Heston price it handed to     *)
(* bs_implied_vol was NaN or infinite.                                     *)
C4_NonFinitePriceGivesNone ==
    /\ hes.op = "heston_iv"
    /\ FGt(hes.args.T, Zero)
    /\ LET p == price_call(hes.args, hes.quad)
       IN  IsNaN(p) \/ IsInf(p)
    /\ IsNone(hes.ret)

(* C5: a call with non-negative counts returns a rectangular grid of       *)
(* n_maturities rows of n_strikes entries, with n_strikes strikes and      *)
(* moneyness values and n_maturities maturities, whatever nodes are None.  *)
C5_Rectangular ==
    (sf.pc = "done" /\ sf.n_strikes >= 0 /\ sf.n_maturities >= 0) =>
        /\ sf.ret.c = "dict"
        /\ Len(Grid) = sf.n_maturities
        /\ \A i \in 1..sf.n_maturities : Len(Grid[i]) = sf.n_strikes
        /\ Len(sf.ret.strikes) = sf.n_strikes
        /\ Len(sf.ret.moneyness) = sf.n_strikes
        /\ Len(sf.ret.maturities_years) = sf.n_maturities

(* The default call has returned an 8 x 20 grid holding unresolved nodes. *)
C5_DefaultGrid ==
    /\ SurfaceDone
    /\ sf.n_strikes = DefaultStrikes /\ sf.n_maturities = DefaultMaturities
    /\ Len(Grid) = 8 /\ Len(Grid[8]) = 20
    /\ \E n \in GridNodes : IsNone(Grid[n[1]][n[2]])
    /\ \E n \in GridNodes : IsFin(Grid[n[1]][n[2]])

MaxPoints == 6
MaxEvals  == 2

Strikes     == << 10000, 9000, 11000, 7000, 10000, 12000, 9500, 10500 >>
Expiries    == << 10000, 5000, 10000, 833, 20000, 10000, 5000, 10000 >>
MarketVols  == << 2000, 2200, 1900, 2500, 2000, 2100, 2050, 1950 >>
StressVols  == << 10000, 12000, 9500, 11000, 10000, 3000, 10500, 9800 >>

QuietVols   == << 50, 60, 40, 50, 50, 70, 50, 45 >>

(* The baskets: quotes near 20 % vol, near 100 % vol, near 0.5 % vol, and  *)
(* whose first quote has strike 0 in a market whose rate is NaN.           *)
Profiles == {"market", "stress", "quiet", "broken"}

PointOf(profile, k) ==
    LET i == ((k - 1) % 8) + 1
    IN  [K      |-> IF profile = "broken" /\ k = 1 THEN Fin(0) ELSE Fin(Strikes[i]),
         T      |-> Fin(Expiries[i]),
         iv     |-> IF profile = "stress" THEN Fin(StressVols[i])
                    ELSE IF profile = "quiet" THEN Fin(QuietVols[i])
                    ELSE Fin(MarketVols[i]),
         weight |-> IF k % 2 = 1 THEN Fin(2 * SCALE) ELSE Fin(SCALE)]

Basket(profile, n) == [k \in 1..n |-> PointOf(profile, k)]

RateOf(profile) == IF profile = "broken" THEN NaN ELSE Fin(300)

CalStart(profile, n) ==
    [CalIdle EXCEPT !.pc = "entry", !.points = Basket(profile, n),
                    !.S = Fin(SCALE), !.r = RateOf(profile), !.q = Zero]

(* The points of the box the optimizer may try after x0. *)
Candidates ==
    {<< 400, 2 * SCALE, 400, 4000, -7000 >>, BoundsHi}

(* The quadrature at the points of one evaluation: sound everywhere, or    *)
(* NaN at the first point.                                                 *)
QuadNaN == [k1 |-> "nan", k2 |-> "nan", err |-> 0]

QuadPatterns(n) ==
    {[k \in 1..n |-> QuadOk], [k \in 1..n |-> IF k = 1 THEN QuadNaN ELSE QuadOk]}

EvaluatedWith(x, terms) ==
    [cal EXCEPT !.x = x, !.terms = terms, !.fun = objective(terms),
                !.evals = @ + 1, !.priced = @ + Len(cal.points)]

Evaluated(x, quad) ==
    EvaluatedWith(x, Terms(cal.points, cal.S, cal.r, cal.q, x, quad, lib))

Calibrate ==
    /\ cal.pc = "entry"
    /\ cal' = IF TooFewPoints(cal.points) THEN [cal EXCEPT !.pc = "error"]
              ELSE [cal EXCEPT !.pc = "opt", !.x = InitialGuess(cal.points)]
    /\ UNCHANGED << lib, iv, hes, sf, bsa, inst, calls >>

OptStart ==
    /\ cal.pc = "opt" /\ cal.evals = 0
    /\ \E quad \in QuadPatterns(Len(cal.points)) :
          cal' = Evaluated(ClipToBounds(cal.x), quad)
    /\ UNCHANGED << lib, iv, hes, sf, bsa, inst, calls >>

OptStep ==
    /\ cal.pc = "opt" /\ cal.evals >= 1 /\ cal.evals < MaxEvals
    /\ \E x \in Candidates, quad \in QuadPatterns(Len(cal.points)) :
          cal' = Evaluated(x, quad)
    /\ UNCHANGED << lib, iv, hes, sf, bsa, inst, calls >>

OptFinish ==
    /\ cal.pc = "opt" /\ cal.evals >= 1
    /\ \E status \in OptStatus :
          cal' = [cal EXCEPT !.pc = "done", !.status = status,
                             !.ret = CalibrationResult(cal.x, cal.fun, status,
                                                       cal.points)]
    /\ UNCHANGED << lib, iv, hes, sf, bsa, inst, calls >>

InitCal ==
    /\ lib \in NanPolicies
    /\ iv = IvIdle
    /\ hes = HesIdle
    /\ sf = SfIdle
    /\ cal \in {CalStart(p, n) : p \in Profiles, n \in {0} \cup (4 .. MaxPoints)}
    /\ bsa = BsaIdle
    /\ inst = Quadrature
    /\ calls = CallsIdle

NextCal == Calibrate \/ OptStart \/ OptStep \/ OptFinish

SpecCal == InitCal /\ [][NextCal]_vars

(* C3: a basket of fewer than 5 points gets no further than the           *)
(* ValueError, raised with no objective evaluation and no pricing done; a  *)
(* basket of 5 or more points is never rejected, and its call ends by      *)
(* returning the result of that basket.                                    *)
C3_CountCheck ==
    /\ cal.pc = "error" =>
          Len(cal.points) < MinPoints /\ cal.evals = 0 /\ cal.priced = 0
    /\ Len(cal.points) < MinPoints =>
          cal.pc \in {"idle", "entry", "error"} /\ cal.evals = 0 /\ cal.priced = 0
    /\ Len(cal.points) >= MinPoints => cal.pc \in {"entry", "opt", "done"}
    /\ cal.pc = "done" => cal.ret.n_points = Len(cal.points)

(* A basket of four points has been rejected. *)
C3_FourPointsRejected ==
    cal.pc = "error" /\ Len(cal.points) = MinPoints - 1 /\ cal.priced = 0

(* C8 as stated: in every evaluation of objective, a point that is not     *)
(* fitted (heston_iv gave None, a vol outside (0.001, 5.0), or raised)     *)
(* adds 0.25 times its weight.                                             *)
C8_PenaltyScaledByWeight ==
    cal.evals >= 1 =>
        \A k \in 1..Len(cal.points) :
            cal.terms[k].kind # "fit" =>
                cal.terms[k].add = FMul(cal.points[k].weight, Fin(Penalty))

(* C9: the parameters of a returned result lie within the bounds handed    *)
(* to the optimizer, ends included, whatever the basket's median vol and   *)
(* whatever status the optimizer reports.                                  *)
C9_ParamsWithinBounds ==
    cal.pc = "done" =>
        /\ \A f \in {"v0", "kappa", "theta", "sigma_v", "rho"} : IsFin(cal.ret[f])
        /\ InBounds(<< cal.ret.v0.v, cal.ret.kappa.v, cal.ret.theta.v,
                       cal.ret.sigma_v.v, cal.ret.rho.v >>)

(* A basket whose squared median vol exceeds 0.9 has come back, not        *)
(* converged, from its start point: v0 is the upper bound itself.          *)
C9_ClippedStartReturned ==
    /\ cal.pc = "done" /\ cal.evals = 1 /\ cal.status # 0
    /\ InitialGuess(cal.points)[1] > BoundsHi[1]
    /\ cal.ret.v0 = Fin(BoundsHi[1])

(* C10: a returned result carries the five parameters, rmse, n_points and  *)
(* success, success is false exactly when the optimizer's status is not    *)
(* convergence, and a basket of 5 or more points never ends in an error.   *)
C10_NonConvergenceIsFlag ==
    /\ cal.pc = "done" =>
          /\ DOMAIN cal.ret = {"v0", "kappa", "theta", "sigma_v", "rho", "rmse",
                               "success", "n_points"}
          /\ cal.ret.n_points = Len(cal.points)
          /\ cal.ret.rmse = FSqrt(cal.fun)
          /\ (cal.ret.success = FALSE) <=> (cal.status # 0)
    /\ Len(cal.points) >= MinPoints => cal.pc \in {"idle", "entry", "opt", "done"}

(* The optimizer hit its iteration limit and the call returned the flag. *)
C10_NotConvergedReturned ==
    cal.pc = "done" /\ cal.status = 1 /\ cal.ret.success = FALSE

(***************************************************************************)
(* BlackScholesAdapter: one call of price or greeks.                       *)
(***************************************************************************)
BsArgs ==
    [S : {Fin(-SCALE), Zero, Fin(SCALE)},
     K : {Fin(-SCALE), Zero, Fin(5000), Fin(SCALE), Fin(11000)},
     days : {-30, 0, 30, 365},
     r : {Fin(500)},
     q : {Fin(-500), Zero, Fin(200)},
     sigma : {Fin(-2000), Zero, Fin(2000)},
     is_call : BOOLEAN,
     quantity : {-2, 1, 2}]

BsPrice ==
    /\ bsa.op = "idle"
    /\ \E a \in BsArgs :
          bsa' = [op |-> "price", args |-> a, reached |-> BsReached(a),
                  ret |-> BsPriceOf(a)]
    /\ UNCHANGED << lib, iv, hes, sf, cal, inst, calls >>

BsGreeks ==
    /\ bsa.op = "idle"
    /\ \E a \in BsArgs :
          bsa' = [op |-> "greeks", args |-> a, reached |-> BsReached(a),
                  ret |-> BsGreeksOf(a)]
    /\ UNCHANGED << lib, iv, hes, sf, cal, inst, calls >>

InitBS ==
    /\ lib \in NanPolicies
    /\ iv = IvIdle
    /\ hes = HesIdle
    /\ sf = SfIdle
    /\ cal = CalIdle
    /\ bsa = BsaIdle
    /\ inst = Quadrature
    /\ calls = CallsIdle

NextBS == BsPrice \/ BsGreeks

SpecBS == InitBS /\ [][NextBS]_vars

Nonphysical(a) == a.S.v <= 0 \/ a.K.v <= 0 \/ a.sigma.v <= 0 \/ a.days < 0

(* C7 as stated: a call of price or greeks with a nonphysical input (spot, *)
(* strike or volatility not positive, maturity before today) ends in an    *)
(* error raised before any statement of the computation has run.           *)
C7_RejectsNonphysical ==
    (bsa.op \in {"price", "greeks"} /\ Nonphysical(bsa.args)) =>
        IsRaise(bsa.ret) /\ bsa.reached = "entry"

(* A call of greeks that returned, on positive spot, strike and volatility. *)
GreeksReturned ==
    /\ bsa.op = "greeks" /\ bsa.ret.c = "greeks"
    /\ bsa.args.S.v > 0 /\ bsa.args.K.v > 0 /\ bsa.args.sigma.v > 0

DeltaInUnitRange ==
    /\ IsFin(bsa.ret.delta)
    /\ IF bsa.args.is_call
       THEN 0 <= bsa.ret.delta.v /\ bsa.ret.delta.v <= SCALE
       ELSE -SCALE <= bsa.ret.delta.v /\ bsa.ret.delta.v <= 0

(* C12 (as the code has it): for a contract of quantity 1 and a dividend   *)
(* yield that is not negative, with S, K, sigma > 0, greeks reports a      *)
(* delta in [0, 1] for a call and in [-1, 0] for a put.                    *)
C12_UnitDeltaBounds ==
    (/\ bsa.op = "greeks"
     /\ bsa.args.S.v > 0 /\ bsa.args.K.v > 0 /\ bsa.args.sigma.v > 0
     /\ bsa.args.quantity = 1 /\ bsa.args.q.v >= 0) =>
        bsa.ret.c = "greeks" /\ DeltaInUnitRange

(* A put of quantity 1 came back with a delta strictly between -1 and 0. *)
C12_UnitPutDelta ==
    /\ GreeksReturned /\ ~bsa.args.is_call
    /\ bsa.args.quantity = 1 /\ bsa.args.q.v >= 0
    /\ -SCALE < bsa.ret.delta.v /\ bsa.ret.delta.v < 0

(* C12 as stated: the bounds hold for every contract and market data with  *)
(* S, K, sigma > 0.                                                        *)
C12_DeltaBounds ==
    (/\ bsa.op = "greeks"
     /\ bsa.args.S.v > 0 /\ bsa.args.K.v > 0 /\ bsa.args.sigma.v > 0) =>
        bsa.ret.c = "greeks" /\ DeltaInUnitRange

(* With quantity 1, a negative dividend yield alone takes a call's delta   *)
(* above 1.                                                                *)
C12_NegativeYieldDelta ==
    /\ GreeksReturned /\ bsa.args.is_call /\ bsa.args.quantity = 1
    /\ bsa.args.q.v < 0 /\ bsa.ret.delta.v > SCALE

(* The arguments of the call in progress with the quantity's sign turned,  *)
(* and with quantity 1.                                                    *)
Mirrored == [bsa.args EXCEPT !.quantity = -bsa.args.quantity]
PerUnit  == [bsa.args EXCEPT !.quantity = 1]
Physical == bsa.args.S.v > 0 /\ bsa.args.K.v > 0 /\ bsa.args.sigma.v > 0

ScaledBy(unit, n) == FMul(unit, Fin(n * SCALE))

GreeksScaled(g, u, m, n) ==
    /\ g.delta = ScaledBy(u.delta, n) /\ g.delta = FNeg(m.delta)
    /\ g.rho   = ScaledBy(u.rho, n)   /\ g.rho   = FNeg(m.rho)
    /\ g.gamma = ScaledBy(u.gamma, Abs(n)) /\ g.gamma = m.gamma
    /\ g.vega  = ScaledBy(u.vega, Abs(n))  /\ g.vega  = m.vega
    /\ g.theta = ScaledBy(u.theta, Abs(n)) /\ g.theta = m.theta

(* C13: price is the unit price times |quantity|; delta and rho are the    *)
(* unit values times the signed quantity; gamma, vega and theta are the    *)
(* unit values times |quantity|.  Against the contract that differs only   *)
(* in the sign of quantity, price, gamma, vega and theta are equal and     *)
(* delta and rho are negated.                                              *)
C13_QuantityScaling ==
    /\ (bsa.op = "price" /\ Physical) =>
          /\ bsa.ret = ScaledBy(BsPriceOf(PerUnit), Abs(bsa.args.quantity))
          /\ bsa.ret = BsPriceOf(Mirrored)
    /\ (bsa.op = "greeks" /\ Physical) =>
          /\ bsa.ret.c = "greeks"
          /\ GreeksScaled(bsa.ret, BsGreeksOf(PerUnit), BsGreeksOf(Mirrored),
                          bsa.args.quantity)

(* A short position of two contracts came back with delta and rho of the   *)
(* sign opposite to the long position's, and a positive gamma.             *)
C13_ShortPosition ==
    /\ bsa.op = "greeks" /\ Physical /\ bsa.args.quantity = -2
    /\ bsa.args.is_call /\ bsa.args.days > 0
    /\ bsa.ret.delta.v < 0 /\ bsa.ret.rho.v < 0
    /\ BsGreeksOf(Mirrored).delta.v > 0
    /\ bsa.ret.gamma.v > 0 /\ bsa.ret.vega.v > 0

(***************************************************************************)
(* One HestonAdapter shared by several callers, as the module-level        *)
(* instance of the router is.  Each caller runs one operation; between     *)
(* one call of _P and the next any other caller may run.  pc is            *)
(*   "p1"   before P1 of the current pricing task                          *)
(*   "p2"   between P1 and P2                                              *)
(*   "done" returned ret                                                   *)
(* calibrate takes part through an evaluation of its objective at the      *)
(* start point, the only place where it reaches the instance.              *)
(***************************************************************************)
NominalArgs == NodeArgs(Fin(SCALE), Fin(300), Zero, NominalParams,
                        Fin(SCALE), Fin(SCALE))

(* An in-the-money put side, an out-of-the-money call side, an expired     *)
(* option, and a vol-of-vol of 0, on which _P raises.                      *)
SharedArgs ==
    {NominalArgs, [NominalArgs EXCEPT !.K = Fin(13000)],
     [NominalArgs EXCEPT !.T = Zero], [NominalArgs EXCEPT !.sigma_v = Zero]}

SharedQuads == {QuadOk, QuadNaN}

KindOf(op) ==
    CASE op = "price_call" -> "call" [] op = "price_put" -> "put" [] OTHER -> "iv"

Task(kind, a, o) == [kind |-> kind, a |-> a, o |-> o]

SingleJob(op, a, o) == [op |-> op, tasks |-> << Task(KindOf(op), a, o) >>]

SingleJobs ==
    {SingleJob("price_call", a, QuadOk) : a \in SharedArgs}
    \cup
    {SingleJob("price_put", NominalArgs, QuadOk),
     SingleJob("heston_iv", NominalArgs, QuadOk),
     SingleJob("heston_iv", [NominalArgs EXCEPT !.K = Fin(13000)], QuadOk),
     SingleJob("heston_iv", NominalArgs, QuadNaN)}

(* generate_surface on a grid of two strikes and one maturity *)
SurfaceJobOn(moneyness, strikes, maturities, o) ==
    [op |-> "generate_surface",
     moneyness |-> moneyness, strikes |-> strikes, maturities |-> maturities,
     quad |-> << << QuadOk, o >> >>,
     tasks |-> << Task("iv", NodeArgs(Fin(SCALE), Fin(300), Zero, NominalParams,
                                      strikes[1], maturities[1]), QuadOk),
                  Task("iv", NodeArgs(Fin(SCALE), Fin(300), Zero, NominalParams,
                                      strikes[2], maturities[1]), o) >>]

SurfaceJob(o) ==
    SurfaceJobOn(Linspace(MoneynessLo, MoneynessHi, 2),
                 StrikesOf(Fin(SCALE), Linspace(MoneynessLo, MoneynessHi, 2)),
                 Linspace(MaturityLo, MaturityHi, 1), o)

(* objective at the clipped start point of a market basket of five *)
ObjectiveJobOn(points, x) ==
    [op |-> "objective", points |-> points, x |-> x,
     tasks |-> [k \in 1..Len(points) |->
                   Task("iv", NodeArgs(Fin(SCALE), Fin(300), Zero, ParamsOf(x),
                                       points[k].K, points[k].T), QuadOk)]]

ObjectiveJob ==
    ObjectiveJobOn(Basket("market", MinPoints),
                   ClipToBounds(InitialGuess(Basket("market", MinPoints))))

Jobs == SingleJobs \cup {SurfaceJob(o) : o \in SharedQuads} \cup {ObjectiveJob}

(* What the operation returns when no other caller runs. *)
Alone(job, nanpolicy) ==
    CASE job.op = "price_call" -> price_call(job.tasks[1].a, job.tasks[1].o)
      [] job.op = "price_put"  -> price_put(job.tasks[1].a, job.tasks[1].o)
      [] job.op = "heston_iv"  ->
             heston_iv(job.tasks[1].a, job.tasks[1].o, nanpolicy)
      [] job.op = "generate_surface" ->
             generate_surface(Fin(SCALE), Fin(300), Zero, NominalParams,
                              Len(job.strikes), Len(job.maturities), job.quad,
                              nanpolicy)
      [] job.op = "objective" ->
             objective(Terms(job.points, Fin(SCALE), Fin(300), Zero, job.x,
                             [k \in 1..Len(job.points) |-> QuadOk], nanpolicy))

Busy(c) == \E d \in Callers \ {c} : calls[d].pc \in {"p1", "p2"}

(* The caller's record once its current task has returned res. *)
FinishedWith(cr, res, outs, over) ==
    IF cr.job.op = "generate_surface" /\ IsRaise(res)
    THEN [cr EXCEPT !.pc = "done", !.ret = SurfaceRaised, !.overlapped = over]
    ELSE IF cr.k < Len(cr.job.tasks)
    THEN [cr EXCEPT !.pc = "p1", !.k = @ + 1, !.p1 = None, !.outs = outs,
                    !.overlapped = over]
    ELSE [cr EXCEPT !.pc = "done", !.outs = outs, !.ret = Assemble(cr.job, outs),
                    !.overlapped = over]

Finished(cr, res, over) == FinishedWith(cr, res, Append(cr.outs, res), over)

AfterP1(cr, t, p1, over) ==
    IF IsRaise(p1)
    THEN Finished(cr, TaskResult(t.kind, t.a, HestonFloor(t.a), lib), over)
    ELSE [cr EXCEPT !.pc = "p2", !.p1 = p1, !.overlapped = over]

SharedBegin(c) ==
    /\ calls[c].pc = "idle"
    /\ \E job \in Jobs :
          calls' = [calls EXCEPT ![c] =
                       [CallIdle EXCEPT !.pc = "p1", !.job = job, !.k = 1,
                                        !.alone = Alone(job, lib)]]
    /\ UNCHANGED << lib, iv, hes, sf, cal, bsa, inst >>

(* Up to and including P1 = self._P(..., 1); a task with T <= 0 returns   *)
(* before it.                                                              *)
SharedP1(c) ==
    /\ calls[c].pc = "p1"
    /\ \E t \in {calls[c].job.tasks[calls[c].k]} :
          IF FLe(t.a.T, Zero)
          THEN /\ calls' = [calls EXCEPT ![c] =
                              Finished(calls[c],
                                       TaskResult(t.kind, t.a, HestonFloor(t.a), lib),
                                       calls[c].overlapped \/ Busy(c))]
               /\ inst' = inst
          ELSE /\ calls' = [calls EXCEPT ![c] =
                              AfterP1(calls[c], t, PWith(inst, t.a, 1, t.o),
                                      calls[c].overlapped \/ Busy(c))]
               /\ inst' = InstAfterP(inst)
    /\ UNCHANGED << lib, iv, hes, sf, cal, bsa >>

(* P2 = self._P(..., 2) and the rest of the task. *)
SharedP2(c) ==
    /\ calls[c].pc = "p2"
    /\ \E t \in {calls[c].job.tasks[calls[c].k]} :
          calls' = [calls EXCEPT ![c] =
                       Finished(calls[c],
                                TaskResult(t.kind, t.a,
                                           CallFromRaw(RawFromP(t.a, calls[c].p1,
                                                                PWith(inst, t.a, 2, t.o)),
                                                       HestonFloor(t.a)), lib),
                                calls[c].overlapped \/ Busy(c))]
    /\ inst' = InstAfterP(inst)
    /\ UNCHANGED << lib, iv, hes, sf, cal, bsa >>

InitShared ==
    /\ lib \in NanPolicies
    /\ iv = IvIdle
    /\ hes = HesIdle
    /\ sf = SfIdle
    /\ cal = CalIdle
    /\ bsa = BsaIdle
    /\ inst = Quadrature
    /\ calls = CallsIdle

NextShared == \E c \in Callers : SharedBegin(c) \/ SharedP1(c) \/ SharedP2(c)

SpecShared == InitShared /\ [][NextShared]_vars

(* C14: the instance's nodes and weights stay what __init__ made them,     *)
(* and under every interleaving each call on the shared instance returns   *)
(* what the same call returns when run alone.                              *)
C14_SharedInstance ==
    /\ inst = Quadrature
    /\ \A c \in Callers :
          calls[c].pc = "done" => calls[c].ret = calls[c].alone

(* A generate_surface call and an objective evaluation ran interleaved on  *)
(* the shared instance, each taking steps while the other was mid-call,    *)
(* and both returned.                                                      *)
C14_InterleavedCalls ==
    \E c, d \in Callers :
        /\ calls[c].pc = "done" /\ calls[d].pc = "done"
        /\ calls[c].overlapped /\ calls[d].overlapped
        /\ calls[c].job.op = "generate_surface" /\ calls[c].ret.c = "dict"
        /\ calls[d].job.op = "objective" /\ IsFin(calls[d].ret)

(* The contract of the call in progress with the other option type, and   *)
(* S e^{-qT} - K e^{-rT} at the T that _time_to_maturity gives.            *)
OtherType == [bsa.args EXCEPT !.is_call = ~bsa.args.is_call]

ParityGap(tm) ==
    FSub(FMul(bsa.args.S, Discount(bsa.args.q, tm.T)),
         FMul(bsa.args.K, Discount(bsa.args.r, tm.T)))

CallMinusPut ==
    IF bsa.args.is_call THEN FSub(bsa.ret, BsPriceOf(OtherType))
    ELSE FSub(BsPriceOf(OtherType), bsa.ret)

(* |x - y| is at most one step of the grid, the rounding of the products. *)
WithinRounding(x, y) ==
    /\ IsFin(x) /\ IsFin(y)
    /\ Abs(x.v - y.v) <= 1

AllFitted ==
    /\ cal.evals >= 1
    /\ \A k \in 1..Len(cal.terms) : cal.terms[k].kind = "fit"

RECURSIVE WeightSum(_, _)
WeightSum(points, k) ==
    IF k = 0 THEN Zero ELSE FAdd(WeightSum(points, k - 1), points[k].weight)

(* (iv_mdl - iv_mkt) ** 2 of point k, from what the point added to total. *)
SquaredError(k) == FDiv(cal.terms[k].add, cal.points[k].weight)

RmseWithinLargestError ==
    \E k \in 1..Len(cal.terms) : FLe(FSqrt(cal.fun), FSqrt(SquaredError(k)))

(* C16 as stated: when every point is fitted, the objective is the sum of  *)
(* the weighted squared errors divided by the sum of the weights, and its  *)
(* square root is at most the largest per-point absolute error.            *)
C16_WeightedMeanError ==
    AllFitted =>
        /\ cal.fun = FDiv(TotalOf(cal.terms, Len(cal.terms)),
                          WeightSum(cal.points, Len(cal.points)))
        /\ RmseWithinLargestError

(* A returned rmse above the absolute error of every point of a basket     *)
(* whose points were all fitted.                                           *)
C16_RmseAboveEveryError ==
    /\ cal.pc = "done" /\ AllFitted
    /\ cal.ret.rmse = FSqrt(cal.fun)
    /\ ~RmseWithinLargestError

(* The steps a call of bs_implied_vol can still make: the entry, the      *)
(* passes of range(25) not yet made and the loop's exit, the fallback.     *)
Remaining ==
    CASE iv.pc = "entry"  -> NewtonMaxIter + 3
      [] iv.pc = "newton" -> NewtonMaxIter + 2 - iv.it
      [] iv.pc = "brent"  -> 1
      [] OTHER            -> 0

(* Every step uses up one of the remaining steps, and a call that has not  *)
(* ended stands at a step that can be made: each step is guarded by the    *)
(* position alone.                                                         *)
StepsRunOut == Remaining' < Remaining

NeverStuck == Remaining > 0 => iv.pc \in {"entry", "newton", "brent"}

VegaAt(sigma) ==
    bs_vega(iv.args.S, iv.args.K, iv.args.T, iv.args.r, iv.args.q, sigma)

PriceRaisesAt(sigma) ==
    \/ IsRaise(bs_call(iv.args.S, iv.args.K, iv.args.T, iv.args.r, iv.args.q,
                       sigma))
    \/ IsRaise(VegaAt(sigma))

VegaVanished == ~IsRaise(VegaAt(iv.sigma)) /\ LtEps(VegaAt(iv.sigma))

(* Where a call stands: the loop starts at 0.30 and makes at most 25       *)
(* passes; a return from the loop is a converged volatility; the fallback  *)
(* is reached after the 25th pass or from a pass whose vega vanished, and  *)
(* ends in a volatility or None.                                           *)
NewtonBounded ==
    /\ iv.it <= NewtonMaxIter
    /\ (iv.pc = "newton" /\ iv.it = 0) => iv.sigma = Fin(SigmaStart)
    /\ iv.via = "newton" =>
          iv.pc = "done" /\ iv.it >= 1 /\ IsFin(iv.ret) /\ InRange(iv.ret)
    /\ (iv.pc = "brent" \/ iv.via = "brent") =>
          iv.it = NewtonMaxIter \/ VegaVanished
    /\ iv.via = "brent" =>
          iv.pc = "done" /\ (IsNone(iv.ret) \/ (IsFin(iv.ret) /\ InRange(iv.ret)))
    /\ iv.pc = "done" => iv.via \in {"entry", "newton", "brent"}

(* A pass made with a vanished vega goes to the fallback at once. *)
BreakOnVega ==
    (iv.pc = "newton" /\ iv.it < NewtonMaxIter /\ VegaVanished) =>
        (iv'.pc = "brent" /\ iv'.it = iv.it)

C17_RaisedInLoop == iv.pc = "raised" /\ iv.it < NewtonMaxIter

(* calibrate has computed x0 for a basket of at least 5 points whose      *)
(* market vols all lie in (0.001, 5.0), and the optimizer has not started. *)
StartComputed ==
    /\ cal.pc = "opt" /\ cal.evals = 0
    /\ Len(cal.points) >= MinPoints
    /\ \A k \in 1..Len(cal.points) :
          FLt(Fin(VolLo), cal.points[k].iv) /\ FLt(cal.points[k].iv, Fin(VolHi))

MedianVol == Median(VolsOf(cal.points, Len(cal.points)))

InsideBounds(x, k) == BoundsLo[k] <= x[k] /\ x[k] <= BoundsHi[k]

(* C18: the start point is (median(iv)^2, 2.0, median(iv)^2, 0.4, -0.7).   *)
(* Its second, fourth and fifth components lie inside the bounds; the      *)
(* first and third do when the median vol lies between the square roots    *)
(* of their bounds, 0.01 and about 0.949; the optimizer evaluates only     *)
(* points inside the bounds, whatever the start.                           *)
C18_StartPoint ==
    /\ StartComputed =>
          /\ cal.x = << Square(MedianVol), 2 * SCALE, Square(MedianVol),
                        (4 * SCALE) \div 10, -((7 * SCALE) \div 10) >>
          /\ \A k \in {2, 4, 5} : InsideBounds(cal.x, k)
          /\ (SqrtFix(BoundsLo[1]) <= MedianVol /\ MedianVol <= SqrtFix(BoundsHi[1]))
                => (InsideBounds(cal.x, 1) /\ InsideBounds(cal.x, 3))
    /\ (cal.pc = "opt" /\ cal.evals >= 1) =>
          \A k \in 1..5 : InsideBounds(cal.x, k)

(* The start point of a basket quoted near 100 % vol has its variances     *)
(* above their upper bound.                                                *)
C18_StartAboveBounds ==
    /\ StartComputed
    /\ cal.x[1] > BoundsHi[1] /\ cal.x[3] > BoundsHi[3]

(* The start point of a basket quoted near 0.5 % vol has its variances     *)
(* below their lower bound.                                                *)
C18_StartBelowBounds ==
    /\ StartComputed
    /\ cal.x[1] < BoundsLo[1] /\ cal.x[3] < BoundsLo[3]

(* C18 as stated: for every basket of at least 5 points with market vols   *)
(* in (0.001, 5.0) the start point lies inside the bounds.                 *)
C18_StartInsideBounds ==
    StartComputed => \A k \in 1..5 : InsideBounds(cal.x, k)

=============================================================================
